---- MODULE Spec2Model ----
(***************************************************************************)
(* Model of server.js: an Express application with a session middleware,   *)
(* a Twitch OAuth callback, a fixed song catalog and a favorites table.    *)
(*                                                                         *)
(* A request arrives (Arrive), its route handler runs (one action per      *)
(* route) and the response leaves (Send).  Node runs a synchronous handler *)
(* to completion and better-sqlite3 statements are synchronous, so such a  *)
(* handler is atomic.  The OAuth callback is async: it awaits the identity *)
(* provider, and other requests are handled while it waits (inflight).     *)
(***************************************************************************)
EXTENDS Integers, Sequences, FiniteSets, TLC

VARIABLES songs, users, favorites, sessions, nextSid, inflight, req, resp, race

vars == <<songs, users, favorites, sessions, nextSid, inflight, req, resp, race>>

----------------------------------------------------------------------------
(* Bounds *)

NumIds == 3
MaxSid == 2

----------------------------------------------------------------------------
(* Values *)

\* Provider user ids (users.id, favorites.user_id).
UserIds == {1, 2}

\* Song ids.  The number n stands for the text "n" of the Id column.
IdPool == 1..NumIds

\* req.session.user when no user is attached (undefined).
NoUser == 0

\* A session id that is not in the session store.
Absent == -1

\* The request carries no session cookie.
NoCookie == 0

Sids == 1..MaxSid

\* JSON values a client can send as songId.
Str(n) == [t |-> "string", v |-> n]
Num(n) == [t |-> "number", v |-> n]
Undefined == [t |-> "undefined", v |-> 0]

\* The songId values of the requests: every string of the pool, the number
\* whose text is the id of a song of every non-empty catalog, and none.
SongIdValues == {Str(n) : n \in IdPool} \cup {Num(1), Undefined}

Rows == UserIds \X IdPool

\* Catalogs the loader can produce, one record per line of the file, in file
\* order and without deduplication: a header-only file, a file that repeats
\* an id, and a file whose ids are not in ascending order.
Catalogs ==
    { <<>>,
      <<[id |-> 1], [id |-> 1]>>,
      <<[id |-> 2], [id |-> 1]>> }

----------------------------------------------------------------------------
(* Responses *)

NoResp ==
    [status |-> 0, kind |-> "none", error |-> "", location |-> "",
     songs |-> <<>>, success |-> FALSE, songId |-> Undefined, favorite |-> FALSE,
     user |-> NoUser]

\* res.status(401).json({ error: "Unauthorized" })
Unauthorized == [NoResp EXCEPT !.status = 401, !.kind = "json", !.error = "Unauthorized"]

\* res.status(400).json({ error: "Invalid song ID" })
InvalidSongId == [NoResp EXCEPT !.status = 400, !.kind = "json", !.error = "Invalid song ID"]

\* res.status(500).json({ success: false, error: err.message })
PersistenceError == [NoResp EXCEPT !.status = 500, !.kind = "json", !.error = "db"]

\* res.redirect(location)
Redirect(location) == [NoResp EXCEPT !.status = 302, !.kind = "redirect", !.location = location]

\* res.send("Authentication failed.")
AuthFailed == [NoResp EXCEPT !.status = 200, !.kind = "text", !.error = "Authentication failed."]

\* res.sendFile(public/index.html)
LoginPage == [NoResp EXCEPT !.status = 200, !.kind = "file", !.location = "public/index.html"]

\* res.render("index", { displayName })
HomePage(u) == [NoResp EXCEPT !.status = 200, !.kind = "render", !.user = u]

\* Express's default error handler, for an exception no handler catches.
Uncaught == [NoResp EXCEPT !.status = 500, !.kind = "html"]

----------------------------------------------------------------------------
(* Session middleware *)

\* The store holds a session under the id of the presented cookie.
SessionStored(sess, sid) == sid \in Sids /\ sess[sid] # Absent

\* req.session.user of a request presenting the cookie sid: the stored
\* session's user, or undefined for the fresh session the middleware
\* generates when the cookie is missing or names no stored session.
SessionUser(sess, sid) == IF SessionStored(sess, sid) THEN sess[sid] ELSE NoUser

\* store.set of a request's session whose user is u: a session loaded from
\* the store is written back under its own id, present or not by now; a
\* fresh session is written under a newly generated id.
StoreSet(sess, next, sid, stored, u) ==
    IF stored
    THEN [sessions |-> [sess EXCEPT ![sid] = u], nextSid |-> next]
    ELSE [sessions |-> [sess EXCEPT ![next] = u], nextSid |-> next + 1]

\* The middleware's hook on the end of a response: the session is saved
\* when its serialised form differs from the one loaded (saveUninitialized
\* and resave are false).  Assigning undefined to a fresh session's user
\* does not change the serialised form.
EndOfResponse(sess, next, sid, stored, loaded, u) ==
    IF u = loaded
    THEN [sessions |-> sess, nextSid |-> next]
    ELSE StoreSet(sess, next, sid, stored, u)

\* req.session.destroy(): the stored session, if any, is removed.
DestroySession(sess, sid) ==
    IF sid \in Sids THEN [sess EXCEPT ![sid] = Absent] ELSE sess

\* A gate that lets every request through.
requireAuthOpen(u) == TRUE

\* requireAuth calls next() exactly when the session has an attached user.
requireAuth(u) == u # NoUser

----------------------------------------------------------------------------
(* Statements on the database *)

\* INSERT OR IGNORE INTO users (id, ...): no-op when the id is present.
UpsertUser(usersTbl, u) == usersTbl \cup {u}

\* An insert that adds a row whether or not the pair is present.
InsertFavoriteAgain(fav, u, s) == [fav EXCEPT ![<<u, s>>] = @ + 1]

\* INSERT OR IGNORE INTO favorites (user_id, song_id): the primary key
\* (user_id, song_id) makes a second insert of the pair a no-op.
InsertFavorite(fav, u, s) ==
    IF fav[<<u, s>>] > 0 THEN fav ELSE [fav EXCEPT ![<<u, s>>] = 1]

\* A delete whose WHERE clause lacks the user_id condition.
DeleteFavoriteAnyUser(fav, u, s) == [r \in Rows |-> IF r[2] = s THEN 0 ELSE fav[r]]

\* DELETE FROM favorites WHERE user_id = ? AND song_id = ?
DeleteFavorite(fav, u, s) == [fav EXCEPT ![<<u, s>>] = 0]

\* A select whose WHERE clause is missing.
SelectFavoriteIdsAll(fav, u) == { r[2] : r \in { x \in Rows : fav[x] > 0 } }

\* SELECT song_id FROM favorites WHERE user_id = ?, collected into a Set.
SelectFavoriteIds(fav, u) == { r[2] : r \in { x \in Rows : x[1] = u /\ fav[x] > 0 } }

\* The insert violates FOREIGN KEY(user_id) REFERENCES users(id) when the
\* user has no row in users (better-sqlite3 enforces foreign keys).
ForeignKeyFails(usersTbl, u) == u \notin usersTbl

----------------------------------------------------------------------------
(* Handlers *)

\* A lookup with loose equality (==), which a number also satisfies.
songExistsLoose(catalog, songId) ==
    \E i \in 1..Len(catalog) : songId.t \in {"string", "number"} /\ catalog[i].id = songId.v

\* songs.find(s => s.id === songId): strict equality, so only a string
\* equal to the id of a catalog song is found.
songExists(catalog, songId) ==
    \E i \in 1..Len(catalog) : songId.t = "string" /\ catalog[i].id = songId.v

\* songs.map(s => ({ ...s, isFavorite: favoriteIds.has(s.id) }))
ListSongs(catalog, fav, u) ==
    LET favoriteIds == SelectFavoriteIds(fav, u)
    IN  [i \in 1..Len(catalog) |->
            [id |-> catalog[i].id, isFavorite |-> catalog[i].id \in favoriteIds]]

\* GET /songs.  Reading req.session.user.id throws when no user is attached.
SongsHandler(catalog, fav, u) ==
    IF ~requireAuth(u) THEN Unauthorized
    ELSE IF u = NoUser THEN Uncaught
    ELSE [NoResp EXCEPT !.status = 200, !.kind = "json", !.songs = ListSongs(catalog, fav, u)]

\* A statement whose else branch is missing.
FavoriteStmtInsertOnly(fav, u, s, favorite) ==
    IF favorite THEN InsertFavorite(fav, u, s) ELSE fav

\* A statement that flips the membership whatever the requested value.
FavoriteStmtToggle(fav, u, s, favorite) ==
    IF fav[<<u, s>>] > 0 THEN DeleteFavorite(fav, u, s) ELSE InsertFavorite(fav, u, s)

\* The statement of the try block of POST /favorite.
FavoriteStmt(fav, u, s, favorite) ==
    IF favorite THEN InsertFavorite(fav, u, s) ELSE DeleteFavorite(fav, u, s)

\* The request reaches the try block of POST /favorite.
StatementRuns(catalog, u, songId) == requireAuth(u) /\ songExists(catalog, songId)

\* POST /favorite.  dbFails: the statement throws for a reason of the
\* storage layer; it also throws on a foreign key violation, and reading
\* req.session.user.id throws when no user is attached.
FavoriteHandler(catalog, fav, usersTbl, u, songId, favorite, dbFails) ==
    IF ~requireAuth(u) THEN [favorites |-> fav, resp |-> Unauthorized]
    ELSE IF ~songExists(catalog, songId) THEN [favorites |-> fav, resp |-> InvalidSongId]
    ELSE IF u = NoUser \/ dbFails \/ (favorite /\ ForeignKeyFails(usersTbl, u))
    THEN [favorites |-> fav, resp |-> PersistenceError]
    ELSE [favorites |-> FavoriteStmt(fav, u, songId.v, favorite),
          resp |-> [NoResp EXCEPT !.status = 200, !.kind = "json", !.success = TRUE,
                                  !.songId = songId, !.favorite = favorite]]

\* What the identity provider and the users insert do during a callback.
Outcomes == {"exchange_fails", "profile_fails", "empty_profile", "upsert_fails", "ok"}

\* The outcomes in which the provider returned a profile.
WithProfile == {"upsert_fails", "ok"}

\* GET /auth/twitch/callback after its awaits.  The session was loaded when
\* the request arrived (sid, stored, loaded).  req.session.user is assigned
\* before the users insert runs; on success the handler saves the session
\* itself, and on a throw the response's end saves it if it was modified.
CallbackHandler(sess, next, usersTbl, sid, stored, loaded, outcome, profile) ==
    LET keep == [sessions |-> sess, nextSid |-> next]
    IN  IF outcome \in {"exchange_fails", "profile_fails"}
        THEN [store |-> keep, users |-> usersTbl, resp |-> AuthFailed]
        ELSE IF outcome = "empty_profile"
        THEN [store |-> EndOfResponse(sess, next, sid, stored, loaded, NoUser),
              users |-> usersTbl, resp |-> AuthFailed]
        ELSE IF outcome = "upsert_fails"
        THEN [store |-> EndOfResponse(sess, next, sid, stored, loaded, profile),
              users |-> usersTbl, resp |-> AuthFailed]
        ELSE [store |-> StoreSet(sess, next, sid, stored, profile),
              users |-> UpsertUser(usersTbl, profile), resp |-> Redirect("/")]

----------------------------------------------------------------------------
(* Requests *)

\* A request, and what the environment did while it was handled (outcome,
\* profile, dbFails).
NoReq ==
    [route |-> "none", sid |-> NoCookie, songId |-> Undefined, favorite |-> FALSE,
     hasCode |-> FALSE, outcome |-> "none", profile |-> NoUser, dbFails |-> FALSE]

Request(route, sid) == [NoReq EXCEPT !.route = route, !.sid = sid]

\* A cookie is signed: a request presents no cookie or an id once issued.
Cookies == {NoCookie} \cup {sid \in Sids : sid < nextSid}

Requests ==
    { Request(route, sid) : route \in {"home", "login", "songs", "logout"}, sid \in Cookies }
    \cup { Request("auth", NoCookie) }
    \cup { [Request("callback", sid) EXCEPT !.hasCode = c] : sid \in Cookies, c \in BOOLEAN }
    \cup { [Request("favorite", sid) EXCEPT !.songId = s, !.favorite = f] :
               sid \in Cookies, s \in SongIdValues, f \in BOOLEAN }

\* No callback is waiting for the identity provider.
NoInflight == [active |-> FALSE, sid |-> NoCookie, stored |-> FALSE, loaded |-> NoUser]

\* The handler of the route has the request and has not responded.
Pending(route) == req.route = route /\ resp = NoResp

----------------------------------------------------------------------------
(* Two requests racing on one pair *)

NoRace ==
    [pc |-> "idle", user |-> NoUser, songId |-> Undefined, a |-> FALSE, b |-> FALSE,
     ab |-> <<>>, ba |-> <<>>, rab |-> <<>>, rba |-> <<>>]

\* The stores the program can hold over a catalog.
Stores(catalog) ==
    { f \in [Rows -> {0, 1}] :
        \A r \in Rows : f[r] = 1 => \E i \in 1..Len(catalog) : catalog[i].id = r[2] }

----------------------------------------------------------------------------
(* State machine *)

Init ==
    /\ songs \in Catalogs
    /\ users = {}
    /\ favorites = [r \in Rows |-> 0]
    /\ sessions = [sid \in Sids |-> Absent]
    /\ nextSid = 1
    /\ inflight = NoInflight
    /\ req = NoReq
    /\ resp = NoResp
    /\ race = NoRace

\* A request arrives.  One callback at a time waits for the provider.
Arrive ==
    /\ req = NoReq
    /\ \E r \in Requests :
        /\ (r.route = "callback" /\ r.hasCode) => ~inflight.active
        /\ req' = r
    /\ UNCHANGED <<songs, users, favorites, sessions, nextSid, inflight, resp, race>>

\* The response is sent.
Send ==
    /\ resp # NoResp
    /\ req' = NoReq
    /\ resp' = NoResp
    /\ UNCHANGED <<songs, users, favorites, sessions, nextSid, inflight, race>>

\* GET /
GetHome ==
    /\ Pending("home")
    /\ LET u == SessionUser(sessions, req.sid)
       IN  resp' = IF requireAuth(u) THEN HomePage(u) ELSE Unauthorized
    /\ UNCHANGED <<songs, users, favorites, sessions, nextSid, inflight, req, race>>

\* GET /login
GetLogin ==
    /\ Pending("login")
    /\ resp' = IF SessionUser(sessions, req.sid) # NoUser THEN Redirect("/") ELSE LoginPage
    /\ UNCHANGED <<songs, users, favorites, sessions, nextSid, inflight, req, race>>

\* GET /auth/twitch
GetAuthTwitch ==
    /\ Pending("auth")
    /\ resp' = Redirect("https://id.twitch.tv/oauth2/authorize")
    /\ UNCHANGED <<songs, users, favorites, sessions, nextSid, inflight, req, race>>

\* GET /auth/twitch/callback up to its first await: without a code it
\* redirects to /login; with one it calls the provider and waits, holding
\* the session the middleware loaded for it.
CallbackBegin ==
    /\ Pending("callback")
    /\ IF ~req.hasCode
       THEN /\ resp' = Redirect("/login")
            /\ UNCHANGED <<inflight, req>>
       ELSE /\ inflight' = [active |-> TRUE, sid |-> req.sid,
                            stored |-> SessionStored(sessions, req.sid),
                            loaded |-> SessionUser(sessions, req.sid)]
            /\ req' = NoReq
            /\ UNCHANGED resp
    /\ UNCHANGED <<songs, users, favorites, sessions, nextSid, race>>

\* GET /auth/twitch/callback from the provider's answer to the response.
\* Attaching a user to a fresh session takes a new session id.
CallbackComplete ==
    /\ inflight.active
    /\ req = NoReq
    /\ \E outcome \in Outcomes :
       \E profile \in IF outcome \in WithProfile THEN UserIds ELSE {NoUser} :
        /\ (outcome \in WithProfile /\ ~inflight.stored) => nextSid <= MaxSid
        /\ LET r == CallbackHandler(sessions, nextSid, users, inflight.sid, inflight.stored,
                                    inflight.loaded, outcome, profile)
           IN  /\ req' = [Request("callback", inflight.sid) EXCEPT
                             !.hasCode = TRUE, !.outcome = outcome, !.profile = profile]
               /\ sessions' = r.store.sessions
               /\ nextSid' = r.store.nextSid
               /\ users' = r.users
               /\ resp' = r.resp
    /\ inflight' = NoInflight
    /\ UNCHANGED <<songs, favorites, race>>

\* GET /songs
GetSongs ==
    /\ Pending("songs")
    /\ resp' = SongsHandler(songs, favorites, SessionUser(sessions, req.sid))
    /\ UNCHANGED <<songs, users, favorites, sessions, nextSid, inflight, req, race>>

\* POST /favorite.  The statement has an outcome only when it runs.
PostFavorite ==
    /\ Pending("favorite")
    /\ LET u == SessionUser(sessions, req.sid)
       IN  \E dbFails \in IF StatementRuns(songs, u, req.songId) THEN BOOLEAN ELSE {FALSE} :
            LET r == FavoriteHandler(songs, favorites, users, u, req.songId, req.favorite,
                                     dbFails)
            IN  /\ req' = [req EXCEPT !.dbFails = dbFails]
                /\ favorites' = r.favorites
                /\ resp' = r.resp
    /\ UNCHANGED <<songs, users, sessions, nextSid, inflight, race>>

\* GET /logout
GetLogout ==
    /\ Pending("logout")
    /\ sessions' = DestroySession(sessions, req.sid)
    /\ resp' = Redirect("/login")
    /\ UNCHANGED <<songs, users, favorites, nextSid, inflight, req, race>>

Next ==
    \/ Arrive
    \/ Send
    \/ GetHome
    \/ GetLogin
    \/ GetAuthTwitch
    \/ CallbackBegin
    \/ CallbackComplete
    \/ GetSongs
    \/ PostFavorite
    \/ GetLogout

Spec == Init /\ [][Next]_vars

----------------------------------------------------------------------------
(* Two POST /favorite requests of one user on one catalog song, A and B,   *)
(* that are in flight together.  Node handles them one after the other, in *)
(* the order A, B or in the order B, A; race.ab and race.ba are the store  *)
(* under the two orders, race.rab and race.rba the statuses returned.      *)

InitRace ==
    /\ songs \in Catalogs
    /\ users = UserIds
    /\ favorites \in Stores(songs)
    /\ sessions \in [Sids -> UserIds]
    /\ nextSid = MaxSid + 1
    /\ inflight = NoInflight
    /\ req = NoReq
    /\ resp = NoResp
    /\ race = NoRace

RaceArrive ==
    /\ race.pc = "idle"
    /\ \E sidA \in Sids, sidB \in Sids, songId \in SongIdValues, a \in BOOLEAN, b \in BOOLEAN :
        /\ SessionUser(sessions, sidA) = SessionUser(sessions, sidB)
        /\ StatementRuns(songs, SessionUser(sessions, sidA), songId)
        /\ race' = [pc |-> "racing", user |-> SessionUser(sessions, sidA), songId |-> songId,
                    a |-> a, b |-> b, ab |-> favorites, ba |-> favorites,
                    rab |-> <<>>, rba |-> <<>>]
    /\ UNCHANGED <<songs, users, favorites, sessions, nextSid, inflight, req, resp>>

\* The next request of the order A, B is handled.
RaceStepAB ==
    /\ race.pc = "racing"
    /\ Len(race.rab) < 2
    /\ \E dbFails \in BOOLEAN :
        LET favorite == IF Len(race.rab) = 0 THEN race.a ELSE race.b
            r == FavoriteHandler(songs, race.ab, users, race.user, race.songId, favorite, dbFails)
        IN  race' = [race EXCEPT !.ab = r.favorites, !.rab = Append(@, r.resp.status)]
    /\ UNCHANGED <<songs, users, favorites, sessions, nextSid, inflight, req, resp>>

\* The next request of the order B, A is handled.
RaceStepBA ==
    /\ race.pc = "racing"
    /\ Len(race.rba) < 2
    /\ \E dbFails \in BOOLEAN :
        LET favorite == IF Len(race.rba) = 0 THEN race.b ELSE race.a
            r == FavoriteHandler(songs, race.ba, users, race.user, race.songId, favorite, dbFails)
        IN  race' = [race EXCEPT !.ba = r.favorites, !.rba = Append(@, r.resp.status)]
    /\ UNCHANGED <<songs, users, favorites, sessions, nextSid, inflight, req, resp>>

NextRace ==
    \/ RaceArrive
    \/ RaceStepAB
    \/ RaceStepBA

SpecRace == InitRace /\ [][NextRace]_vars

----------------------------------------------------------------------------
(* Properties *)

\* The step is the handler of the route answering its request.
Handled(route) == Pending(route) /\ resp' # NoResp

\* The step is a callback answering after its awaits.
CallbackAnswered == req = NoReq /\ req'.route = "callback" /\ resp' # NoResp

\* The user of the request being handled.
ReqUser == SessionUser(sessions, req.sid)

CatalogIds == { songs[i].id : i \in 1..Len(songs) }

\* The songId of the request is the id of a catalog song.
IsCatalogId(songId) == songId.t = "string" /\ songId.v \in CatalogIds

\* The pair is in the favorites table.
Member(fav, u, s) == fav[<<u, s>>] > 0

\* C1 as stated: for an authenticated user, a catalog song and a boolean
\* b, POST /favorite returns success and afterwards the pair (user, song)
\* is in the Favorites Store if and only if b.
C1_AlwaysSucceeds ==
    [][ (Handled("favorite") /\ ReqUser # NoUser /\ IsCatalogId(req.songId))
        => /\ resp'.status = 200
           /\ resp'.success
           /\ Member(favorites', ReqUser, req.songId.v) = req.favorite ]_vars

\* C1 amended: for an authenticated user, a catalog song and a boolean b,
\* POST /favorite either returns success, and then the pair is in the store
\* iff b, GET /songs by the user reports isFavorite = b for the song, and
\* the same statement run again leaves the store as it is; or the statement
\* throws (a storage failure, or an insert by a user without a users row),
\* and then the response is the 500 error and the store is unchanged.
C1_SuccessSetsMembership ==
    [][ (Handled("favorite") /\ ReqUser # NoUser /\ IsCatalogId(req.songId))
        => \/ /\ resp'.status = 200
              /\ resp'.success
              /\ resp'.songId = req.songId
              /\ resp'.favorite = req.favorite
              /\ ~req'.dbFails
              /\ Member(favorites', ReqUser, req.songId.v) = req.favorite
              /\ \A i \in 1..Len(songs) :
                    songs[i].id = req.songId.v
                    => ListSongs(songs, favorites', ReqUser)[i].isFavorite = req.favorite
              /\ FavoriteStmt(favorites', ReqUser, req.songId.v, req.favorite) = favorites'
           \/ /\ resp' = PersistenceError
              /\ req'.dbFails \/ (req.favorite /\ ReqUser \notin users)
              /\ favorites' = favorites ]_vars

\* An unfavorite by a logged-in user has succeeded and the pair is gone,
\* while the user still holds another favorite.
C1_Witness ==
    /\ req.route = "favorite"
    /\ resp.status = 200
    /\ resp.success
    /\ ~req.favorite
    /\ ~Member(favorites, ReqUser, req.songId.v)
    /\ \E s \in IdPool : Member(favorites, ReqUser, s)

\* C2: for an authenticated user and a songId that is not the id of a
\* catalog song (a missing one included), POST /favorite answers 400
\* "Invalid song ID" and leaves the Favorites Store as it was.
C2_InvalidSongRejected ==
    [][ (Handled("favorite") /\ ReqUser # NoUser /\ ~IsCatalogId(req.songId))
        => /\ resp' = InvalidSongId
           /\ favorites' = favorites ]_vars

\* A logged-in user with a favorite sent the number 1, where "1" is the id
\* of a catalog song, and was answered 400.
C2_Witness ==
    /\ req.route = "favorite"
    /\ ReqUser # NoUser
    /\ req.songId = Num(1)
    /\ 1 \in CatalogIds
    /\ req.favorite
    /\ resp = InvalidSongId
    /\ \E s \in IdPool : Member(favorites, ReqUser, s)

\* C3: GET /songs or POST /favorite with a session without a user is
\* answered 401 Unauthorized with no song data, and the Favorites Store,
\* the users table and the sessions are unchanged.
C3_GateRejects ==
    [][ ((Handled("songs") \/ Handled("favorite")) /\ ReqUser = NoUser)
        => /\ resp' = Unauthorized
           /\ resp'.songs = <<>>
           /\ UNCHANGED <<favorites, users, sessions, nextSid>> ]_vars

\* A valid favorite request with the cookie of a destroyed session was
\* answered 401 while the store holds favorites.
C3_Witness ==
    /\ req.route = "favorite"
    /\ req.sid \in Sids
    /\ ReqUser = NoUser
    /\ IsCatalogId(req.songId)
    /\ req.favorite
    /\ resp = Unauthorized
    /\ \E r \in Rows : favorites[r] > 0

C5_OnlyOwnPair ==
    [][ Handled("favorite")
        => /\ \A r \in Rows :
                r # <<ReqUser, req.songId.v>> => favorites'[r] = favorites[r]
           /\ \A u \in UserIds \ {ReqUser} :
                ListSongs(songs, favorites', u) = ListSongs(songs, favorites, u) ]_vars

\* A user has unfavorited a song that another user still has as a favorite.
C5_Witness ==
    /\ req.route = "favorite"
    /\ resp.success
    /\ ~req.favorite
    /\ \E u \in UserIds \ {ReqUser} : Member(favorites, u, req.songId.v)

\* C6 as stated: when a step of the OAuth callback fails, the response is
\* "Authentication failed." and no session bound to a user is created: no
\* session has a user it did not have before the callback answered.
C6_NoSessionOnFailure ==
    [][ (CallbackAnswered /\ resp' = AuthFailed)
        => \A sid \in Sids :
              SessionUser(sessions', sid) \in {NoUser, SessionUser(sessions, sid)} ]_vars

\* C7 as stated: GET / with a session without a user is answered by a
\* redirect to the login page.
C7_BrowserRedirected ==
    [][ (Handled("home") /\ ReqUser = NoUser) => resp' = Redirect("/login") ]_vars

\* C8 as stated: GET /logout destroys the session, leaves the Favorites
\* Store unchanged and redirects to /login; from then on a request with
\* that session id is rejected by the gate and GET /login serves the login
\* page, and the id gets a user again only by a callback that succeeds.
C8_LoggedOutStaysOut ==
    [][ \A sid \in Sids :
          /\ (Handled("logout") /\ req.sid = sid)
             => /\ sessions'[sid] = Absent
                /\ favorites' = favorites
                /\ resp' = Redirect("/login")
          /\ (sid < nextSid /\ sessions[sid] = Absent)
             => /\ (Handled("home") /\ req.sid = sid) => resp' = Unauthorized
                /\ (Handled("songs") /\ req.sid = sid) => resp' = Unauthorized
                /\ (Handled("favorite") /\ req.sid = sid) => resp' = Unauthorized
                /\ (Handled("login") /\ req.sid = sid) => resp' = LoginPage
                /\ sessions'[sid] \in UserIds => resp' = Redirect("/") ]_vars

\* Both orders of the two requests have been handled.
RaceDone == race.pc = "racing" /\ Len(race.rab) = 2 /\ Len(race.rba) = 2

\* Every request of both orders returned success.
RaceAllSucceeded == \A i \in 1..2 : race.rab[i] = 200 /\ race.rba[i] = 200

\* C9 as stated: for two concurrent POST /favorite requests by one user on
\* one catalog song, with equal or different values, the final membership
\* of the pair is the same in both orders of handling.
C9_OrderIndependent ==
    (RaceDone /\ RaceAllSucceeded)
    => Member(race.ab, race.user, race.songId.v) = Member(race.ba, race.user, race.songId.v)

\* C9 amended: when the two requests succeed, the final membership of the
\* pair is the value of the request handled last, and no other pair
\* changes; so the final store is the same in both orders exactly when the
\* two requests carry the same value.
C9_LastRequestWins ==
    (RaceDone /\ RaceAllSucceeded)
    => /\ Member(race.ab, race.user, race.songId.v) = race.b
       /\ Member(race.ba, race.user, race.songId.v) = race.a
       /\ \A r \in Rows :
            r # <<race.user, race.songId.v>>
            => race.ab[r] = favorites[r] /\ race.ba[r] = favorites[r]
       /\ (race.ab = race.ba) <=> (race.a = race.b)

\* Two successful requests with the same value changed the membership of
\* the pair, in both orders.
C9_Witness ==
    /\ RaceDone
    /\ RaceAllSucceeded
    /\ race.a = race.b
    /\ race.ab = race.ba
    /\ race.ab # favorites

\* C10: every pair of the Favorites Store has the id of a catalog song as
\* its song_id, and is in the store at most once.
C10_FavoritesValid ==
    \A r \in Rows : favorites[r] > 0 => (favorites[r] = 1 /\ r[2] \in CatalogIds)

\* With the same pair already in the store, a second insert of it has
\* succeeded, after which a request for an id outside the catalog was
\* rejected.
C10_Witness ==
    /\ req.route = "favorite"
    /\ ReqUser # NoUser
    /\ req.songId.t = "string"
    /\ ~IsCatalogId(req.songId)
    /\ req.favorite
    /\ resp = InvalidSongId
    /\ Cardinality({ r \in Rows : favorites[r] > 0 }) >= 2

====
